---------------------------- MODULE Spec2Model ----------------------------
(***************************************************************************)
(* Token quota and ingestion handlers of the recipe application            *)
(* (src/app.py, src/recipe.py), as a state machine over the SQLite tables  *)
(* user_tokens, recipes and user_recipes.                                   *)
(*                                                                         *)
(* Time is counted in minutes of the Asia/Tokyo wall clock since 00:00 of  *)
(* day 0.  Asia/Tokyo has a constant UTC offset, so wall-clock arithmetic  *)
(* and instant arithmetic agree.                                            *)
(*                                                                         *)
(* Every request opens its own SQLite connection.  Python's sqlite3 opens  *)
(* a transaction implicitly before the first INSERT/UPDATE of a `with`     *)
(* block and commits at its end; SELECTs before that first write run in    *)
(* autocommit mode.  A handler is therefore modelled as: its SELECTs, each *)
(* a step of its own while the handler has written nothing, and then its   *)
(* write transaction, one atomic step.                                      *)
(***************************************************************************)
EXTENDS Integers, Sequences, FiniteSets, TLC

\* ------------------------------------------------------------------ bounds
NumUsers == 1
MaxRecipeId == 2
MaxItems == 2
MaxIdLen == 2
MaxDay == 1
NumReqs == 1
RaceReqs == 2
MaxClockMinute == 2880
LowTokens == 1
MaxSpent == 2
MaxBadLen == 1
NumActors == 2
MaxSkewDays == 1
MaxLarge == 2
MaxMedium == 2
MaxSmall == 2
MaxQueryLen == 3
MaxCats == 3
MaxLimit == 3

\* --------------------------------------------------------- program constants
MAX_TOKENS == 1000
DAILY_REFILL == 1000
REFILL_HOUR_JST == 4
MAX_RETRIES == 3

HourMinutes == 60
DayMinutes == 24 * HourMinutes
\* JST = ZoneInfo("Asia/Tokyo"): UTC+09:00, no daylight saving
JstOffset == 9 * HourMinutes

Users == 1..NumUsers
Reqs == 1..NumReqs
RecipeNums == 1..MaxRecipeId
\* a ranking item without a recipeId (item.get("recipeId") is None)
NoId == 0 - 1
\* an item whose recipeId is outside the tracked ones and whose pickup (or
\* shop) is text that int() does not read
BadItem == 0 - 2
ItemIds == RecipeNums \cup {NoId, BadItem}
\* the category id typed into the form; it becomes source_category_id
Categories == {"10-275"}

Min(a, b) == IF a <= b THEN a ELSE b

\* ------------------------------------------------------------ id strings
\* A string is a sequence of one-character strings.
DigitChars == <<"0", "1", "2", "3", "4", "5", "6", "7", "8", "9">>
Digits == {DigitChars[i] : i \in 1..10}
\* two characters outside ASCII, each written as one token: FULLWIDTH DIGIT
\* ONE is a decimal digit of Unicode (category Nd), SUPERSCRIPT TWO is a
\* digit that is no decimal digit (category No)
FullwidthOne == "U+FF11"
SuperscriptTwo == "U+00B2"
\* the characters for which str.isdigit() is true, and those int() reads
IsDigitChars == Digits \cup {FullwidthOne, SuperscriptTwo}
DecimalChars == Digits \cup {FullwidthOne}
DigitVal(c) ==
    IF c = FullwidthOne THEN 1
    ELSE (CHOOSE i \in 1..10 : DigitChars[i] = c) - 1

\* str.isdigit(): non-empty and every character a digit
IsDigit(s) == Len(s) > 0 /\ \A i \in 1..Len(s) : s[i] \in IsDigitChars

\* int(rid) returns (it raises ValueError on a character that is no
\* decimal digit)
IntParses(s) == Len(s) > 0 /\ \A i \in 1..Len(s) : s[i] \in DecimalChars

\* int(rid) of a digit string
RECURSIVE IntOf(_)
IntOf(s) ==
    IF s = <<>> THEN 0
    ELSE IntOf(SubSeq(s, 1, Len(s) - 1)) * 10 + DigitVal(s[Len(s)])

\* str(n) of a non-negative integer
RECURSIVE StrOf(_)
StrOf(n) ==
    IF n < 10 THEN <<DigitChars[n + 1]>>
    ELSE StrOf(n \div 10) \o <<DigitChars[(n % 10) + 1]>>

\* str.strip(): leading and trailing whitespace removed
Whitespace == {" "}
RECURSIVE Strip(_)
Strip(s) ==
    IF s = <<>> THEN s
    ELSE IF Head(s) \in Whitespace THEN Strip(Tail(s))
    ELSE IF s[Len(s)] \in Whitespace THEN Strip(SubSeq(s, 1, Len(s) - 1))
    ELSE s

\* characters a user types into the recipeId field
FormChars == {"0", "1", "2", "a", " ", FullwidthOne, SuperscriptTwo}
StringsUpTo(chars, n) == UNION {[1..k -> chars] : k \in 0..n}
\* form inputs: the numbers of the tracked recipes in every spelling
\* (leading zeros, surrounding blanks and fullwidth digits included), and
\* the short inputs that int() does not read
FormInputs ==
    {s \in StringsUpTo(FormChars, MaxIdLen) :
        IF IntParses(Strip(s)) THEN IntOf(Strip(s)) \in RecipeNums
        ELSE Len(s) <= MaxBadLen}

\* ------------------------------------------------------------------ clock
DateOf(t) == t \div DayMinutes

\* now_jst.replace(hour=h, minute=0, second=0, microsecond=0)
ReplaceTime(t, h) == DateOf(t) * DayMinutes + h * HourMinutes

\* mutant: the comparison with the boundary is <= instead of <
MostRecentRefillBoundaryLate(now_jst) ==
    LET boundary == ReplaceTime(now_jst, REFILL_HOUR_JST)
    IN  IF now_jst <= boundary THEN boundary - DayMinutes ELSE boundary

\* mutant: the time of day is not replaced
MostRecentRefillBoundaryNow(now_jst) == now_jst

MostRecentRefillBoundary(now_jst) ==
    LET boundary == ReplaceTime(now_jst, REFILL_HOUR_JST)
    IN  IF now_jst < boundary THEN boundary - DayMinutes ELSE boundary

\* datetime.astimezone(timezone.utc) / .astimezone(JST); the stored text is
\* the ISO form of the UTC instant
AsUtc(t_jst) == t_jst - JstOffset
AsJst(t_utc) == t_utc + JstOffset

RefillMinute == REFILL_HOUR_JST * HourMinutes
\* instants at which requests are observed: one minute before the refill
\* hour and the refill hour itself, of each day
DayMarks == {RefillMinute - 1, RefillMinute}
Instants == {d * DayMinutes + m : d \in 0..MaxDay, m \in DayMarks}
StartNow == RefillMinute - 1

VARIABLES
    now,           \* datetime.now(tz=JST), in minutes
    user_tokens,   \* table user_tokens: user_id -> [tokens, last_refill_at]
    recipes,       \* table recipes: recipe_id -> [source_category_id]
    user_recipes,  \* table user_recipes: set of <<user_id, recipe_id>>
    req,           \* the requests in flight: position and local variables
    last           \* history: what the latest handler step read, wrote, returned

vars == <<now, user_tokens, recipes, user_recipes, req, last>>

\* ------------------------------------------------------- ensure_user_tokens
\* The column last_refill_at holds text: the ISO form of a UTC instant,
\* kept here as that instant, or text that datetime.fromisoformat does not
\* read, kept here as the value Malformed (below every instant)
Malformed == 0 - 100 * DayMinutes
IsIsoFormat(raw) == raw # Malformed

\* the row-exists branch of ensure_user_tokens with the refill rule given
\* as parameters: refill when `due`, to `refilled`, stamping `stamp`
EnsureVariant(tbl, user_id, now_jst, capped, stamped, strict, guarded) ==
    LET current_boundary == MostRecentRefillBoundary(now_jst)
        current_boundary_utc == AsUtc(current_boundary)
    IN  IF user_id \notin DOMAIN tbl
        THEN [tokens |-> MAX_TOKENS,
              tbl |-> [u \in DOMAIN tbl \cup {user_id} |->
                          IF u = user_id
                          THEN [tokens |-> MAX_TOKENS,
                                last_refill_at |-> current_boundary_utc]
                          ELSE tbl[u]],
              wrote |-> TRUE,
              boundary |-> current_boundary, delta_days |-> 0]
        ELSE LET tokens == tbl[user_id].tokens
                 last_refill_at_raw == tbl[user_id].last_refill_at
                 last_refill_at ==
                     IF IsIsoFormat(last_refill_at_raw) \/ ~guarded
                     THEN last_refill_at_raw
                     ELSE current_boundary_utc
                 last_refill_jst == Min(AsJst(last_refill_at), current_boundary)
                 delta_days == DateOf(current_boundary) - DateOf(last_refill_jst)
                 sum == tokens + delta_days * DAILY_REFILL
                 refilled == IF capped THEN Min(MAX_TOKENS, sum) ELSE sum
             IN  IF (strict /\ delta_days > 0) \/ (~strict /\ delta_days >= 0)
                 THEN [tokens |-> refilled,
                       tbl |-> [tbl EXCEPT ![user_id] =
                                   [tokens |-> refilled,
                                    last_refill_at |->
                                        IF stamped THEN current_boundary_utc
                                        ELSE last_refill_at_raw]],
                       wrote |-> TRUE,
                       boundary |-> current_boundary, delta_days |-> delta_days]
                 ELSE [tokens |-> tokens, tbl |-> tbl,
                       wrote |-> FALSE,
                       boundary |-> current_boundary, delta_days |-> delta_days]

\* mutant: the refill is not capped at MAX_TOKENS
EnsureUserTokensNoCap(tbl, user_id, now_jst) ==
    EnsureVariant(tbl, user_id, now_jst, FALSE, TRUE, TRUE, TRUE)

\* mutant: the refill does not advance last_refill_at
EnsureUserTokensNoStamp(tbl, user_id, now_jst) ==
    EnsureVariant(tbl, user_id, now_jst, TRUE, FALSE, TRUE, TRUE)

\* mutant: the refill test is delta_days >= 0
EnsureUserTokensEager(tbl, user_id, now_jst) ==
    EnsureVariant(tbl, user_id, now_jst, TRUE, TRUE, FALSE, TRUE)

\* mutant: the row of a new user is created empty
EnsureUserTokensCreateEmpty(tbl, user_id, now_jst) ==
    IF user_id \notin DOMAIN tbl
    THEN [tokens |-> 0,
          tbl |-> [u \in DOMAIN tbl \cup {user_id} |->
                      IF u = user_id
                      THEN [tokens |-> 0,
                            last_refill_at |->
                                AsUtc(MostRecentRefillBoundary(now_jst))]
                      ELSE tbl[u]],
          wrote |-> TRUE,
          boundary |-> MostRecentRefillBoundary(now_jst), delta_days |-> 0]
    ELSE EnsureVariant(tbl, user_id, now_jst, TRUE, TRUE, TRUE, TRUE)

\* mutant: text that does not parse is read as an instant long past
\* instead of the current boundary
EnsureUserTokensUnguarded(tbl, user_id, now_jst) ==
    EnsureVariant(tbl, user_id, now_jst, TRUE, TRUE, TRUE, FALSE)

\* The result of ensure_user_tokens on the table `tbl` for `user_id` at
\* `now_jst`: the returned tokens, the table afterwards, whether a write was
\* issued, and the intermediate values.
EnsureUserTokens(tbl, user_id, now_jst) ==
    LET current_boundary == MostRecentRefillBoundary(now_jst)
        current_boundary_utc == AsUtc(current_boundary)
    IN  IF user_id \notin DOMAIN tbl
        THEN [tokens |-> MAX_TOKENS,
              tbl |-> [u \in DOMAIN tbl \cup {user_id} |->
                          IF u = user_id
                          THEN [tokens |-> MAX_TOKENS,
                                last_refill_at |-> current_boundary_utc]
                          ELSE tbl[u]],
              wrote |-> TRUE,
              boundary |-> current_boundary, delta_days |-> 0]
        ELSE LET tokens == tbl[user_id].tokens
                 last_refill_at_raw == tbl[user_id].last_refill_at
                 \* try: fromisoformat(raw)  except: current_boundary_utc
                 last_refill_at ==
                     IF IsIsoFormat(last_refill_at_raw)
                     THEN last_refill_at_raw
                     ELSE current_boundary_utc
                 \* if last_refill_jst > current_boundary: clamp
                 last_refill_jst == Min(AsJst(last_refill_at), current_boundary)
                 delta_days == DateOf(current_boundary) - DateOf(last_refill_jst)
                 refilled == Min(MAX_TOKENS, tokens + delta_days * DAILY_REFILL)
             IN  IF delta_days > 0
                 THEN [tokens |-> refilled,
                       tbl |-> [tbl EXCEPT ![user_id] =
                                   [tokens |-> refilled,
                                    last_refill_at |-> current_boundary_utc]],
                       wrote |-> TRUE,
                       boundary |-> current_boundary, delta_days |-> delta_days]
                 ELSE [tokens |-> tokens, tbl |-> tbl,
                       wrote |-> FALSE,
                       boundary |-> current_boundary, delta_days |-> delta_days]

\* mutant: the UPDATE has no WHERE clause
SetUserTokensEveryRow(tbl, user_id, tokens) ==
    [u \in DOMAIN tbl |-> [tbl[u] EXCEPT !.tokens = tokens]]

\* set_user_tokens: UPDATE user_tokens SET tokens = ? WHERE user_id = ?
SetUserTokens(tbl, user_id, tokens) ==
    IF user_id \in DOMAIN tbl
    THEN [tbl EXCEPT ![user_id].tokens = tokens]
    ELSE tbl

\* history: the latest step completed no request and called no ensure
NoResp == [op |-> "none", user |-> 0]

\* the balances the model follows: the low ones, and those within MaxSpent
\* of MAX_TOKENS (a repeated add_recipe can spend the whole balance, one
\* token a request)
TokensTracked(tbl) ==
    \A u \in DOMAIN tbl :
        tbl[u].tokens <= LowTokens \/ tbl[u].tokens >= MAX_TOKENS - MaxSpent
Idle == [pc |-> "idle"]

\* history record of one ensure_user_tokens call: the row it read, the
\* value returned, whether it wrote, and the boundary and result of the
\* ensure call before it when that was the latest request and was for the
\* same user (so that nothing wrote the row in between)
EnsureRecord(tbl, user_id, now_jst) ==
    LET e == EnsureUserTokens(tbl, user_id, now_jst)
        had == user_id \in DOMAIN tbl
        follows == last.op = "ensure" /\ last.user = user_id
    IN  [op |-> "ensure", user |-> user_id, now |-> now_jst, had_row |-> had,
         row_before |-> IF had THEN tbl[user_id] ELSE e.tbl[user_id],
         delta_days |-> e.delta_days, boundary |-> e.boundary,
         returned |-> e.tokens, wrote |-> e.wrote,
         prior |-> follows,
         prior_now |-> IF follows THEN last.now ELSE 0,
         prior_boundary |-> IF follows THEN last.boundary ELSE 0,
         prior_returned |-> IF follows THEN last.returned ELSE 0]

\* ------------------------------------------------------------------- Init
\* A stored row can hold any balance of 0..MAX_TOKENS when observation
\* starts (reached by ingesting recipes outside the tracked ids); a row
\* that is absent is created with MAX_TOKENS.
InitRows ==
    {[tokens |-> LowTokens,
      last_refill_at |-> AsUtc(MostRecentRefillBoundary(StartNow))]}

InitStore ==
    /\ user_tokens \in UNION {[S -> InitRows] : S \in SUBSET Users}
    /\ recipes = <<>>
    /\ user_recipes = {}
    /\ last = NoResp

Init ==
    /\ now = StartNow
    /\ InitStore
    /\ req = [r \in Reqs |-> Idle]

\* ---------------------------------------------------------------- actions
\* the clock advances to a later instant
Tick ==
    /\ \E t \in Instants : t > now /\ now' = t
    /\ UNCHANGED <<user_tokens, recipes, user_recipes, req, last>>

\* index() / add_recipe_form(): ensure_user_tokens in a transaction of its own
Index(user_id) ==
    /\ last' = EnsureRecord(user_tokens, user_id, now)
    /\ user_tokens' = EnsureUserTokens(user_tokens, user_id, now).tbl
    /\ UNCHANGED <<now, recipes, user_recipes, req>>

\* ------------------------------------------------------------ add_category
\* mutant: the replace drops the other rows of the table
UpsertRecipeTruncating(tbl, recipe_id, source_category_id) ==
    [k \in {recipe_id} |-> [source_category_id |-> source_category_id]]

\* INSERT OR REPLACE INTO recipes
UpsertRecipe(tbl, recipe_id, source_category_id) ==
    [k \in DOMAIN tbl \cup {recipe_id} |->
        IF k = recipe_id THEN [source_category_id |-> source_category_id]
        ELSE tbl[k]]

\* INSERT OR IGNORE INTO user_recipes
InsertUserRecipe(tbl, user_id, recipe_id) == tbl \cup {<<user_id, recipe_id>>}

\* SELECT recipe_id FROM user_recipes WHERE user_id = ?
OwnedIds(tbl, user_id) == {row[2] : row \in {x \in tbl : x[1] = user_id}}

\* a ranking result: items in source order, each with a recipeId or none
ItemSeqs == UNION {[1..k -> ItemIds] : k \in 0..MaxItems}

\* what fetch_category_ranking returns: None, or the decoded payload, which
\* has a "result" field or has none
NoData == [none |-> TRUE, has_result |-> FALSE, result |-> <<>>]
RankingResults ==
    {NoData, [none |-> FALSE, has_result |-> FALSE, result |-> <<>>]}
    \cup {[none |-> FALSE, has_result |-> TRUE, result |-> items] :
             items \in ItemSeqs}

\* mutant: only a fetch that returned None counts as failed
RankingFailedNoneOnly(data) == data.none

\* if not data or "result" not in data
RankingFailed(data) == data.none \/ ~data.has_result

\* items = data.get("result") or []
ItemsOf(data) == IF data.has_result THEN data.result ELSE <<>>

\* rid_str = str(rid)
ItemIdStr(rid) == IF rid = BadItem THEN <<"9", "9">> ELSE StrOf(rid)

\* the loop of add_category with its handling of an empty balance as a
\* parameter: "break" stops, "continue" goes on to the next item, "none"
\* makes no test of the balance
RECURSIVE CategoryLoopVariant(_, _, _, _, _, _)
CategoryLoopVariant(new_recipes, owned_ids, user_id, cid, st, on_empty) ==
    IF new_recipes = <<>> THEN st
    ELSE LET rid == Head(new_recipes)
             rest == Tail(new_recipes)
         IN  IF rid = NoId
             THEN CategoryLoopVariant(rest, owned_ids, user_id, cid, st, on_empty)
             ELSE LET rid_str == ItemIdStr(rid)
                  IN  IF rid_str \in owned_ids
                      THEN CategoryLoopVariant(rest, owned_ids, user_id, cid,
                                        [st EXCEPT !.skipped = @ + 1], on_empty)
                      ELSE IF st.tokens <= 0 /\ on_empty = "break"
                      THEN st
                      ELSE IF st.tokens <= 0 /\ on_empty = "continue"
                      THEN CategoryLoopVariant(rest, owned_ids, user_id, cid, st, on_empty)
                      ELSE IF rid = BadItem
                      THEN [st EXCEPT !.failed = TRUE]
                      ELSE CategoryLoopVariant(rest, owned_ids, user_id, cid,
                             [st EXCEPT
                                !.recipes = UpsertRecipe(@, rid_str, cid),
                                !.user_recipes = InsertUserRecipe(@, user_id, rid_str),
                                !.tokens = @ - 1,
                                !.added = @ + 1], on_empty)

\* mutant: the loop never tests the balance
CategoryLoopNoQuota(new_recipes, owned_ids, user_id, cid, st) ==
    CategoryLoopVariant(new_recipes, owned_ids, user_id, cid, st, "none")

\* mutant: on an empty balance the loop goes on to the next item
CategoryLoopContinue(new_recipes, owned_ids, user_id, cid, st) ==
    CategoryLoopVariant(new_recipes, owned_ids, user_id, cid, st, "continue")

\* The loop over new_recipes.  st holds the loop's variables (tokens, added,
\* skipped) and the tables as written so far inside the transaction;
\* owned_ids is the set read before the loop and is not extended by it.
\* Building the parameters of the INSERT raises for an item whose pickup
\* is no number: the loop ends there with st.failed.
RECURSIVE CategoryLoop(_, _, _, _, _)
CategoryLoop(new_recipes, owned_ids, user_id, cid, st) ==
    IF new_recipes = <<>> THEN st
    ELSE LET rid == Head(new_recipes)
             rest == Tail(new_recipes)
         IN  IF rid = NoId
             THEN CategoryLoop(rest, owned_ids, user_id, cid, st)
             ELSE LET rid_str == ItemIdStr(rid)
                  IN  IF rid_str \in owned_ids
                      THEN CategoryLoop(rest, owned_ids, user_id, cid,
                                        [st EXCEPT !.skipped = @ + 1])
                      ELSE IF st.tokens <= 0
                      THEN st
                      ELSE IF rid = BadItem
                      THEN [st EXCEPT !.failed = TRUE]
                      ELSE CategoryLoop(rest, owned_ids, user_id, cid,
                             [st EXCEPT
                                !.recipes = UpsertRecipe(@, rid_str, cid),
                                !.user_recipes = InsertUserRecipe(@, user_id, rid_str),
                                !.tokens = @ - 1,
                                !.added = @ + 1])

\* The write transaction of add_category: the loop, then set_user_tokens,
\* committed together.  `tokens` and `owned_ids` are the handler's reads;
\* tok_tbl, rec_tbl and own_tbl are the tables the writes land on.
CategoryCommit(items, owned_ids, user_id, cid, tokens, tok_tbl, rec_tbl, own_tbl) ==
    LET st == CategoryLoop(items, owned_ids, user_id, cid,
                           [tokens |-> tokens, added |-> 0, skipped |-> 0,
                            failed |-> FALSE,
                            recipes |-> rec_tbl, user_recipes |-> own_tbl])
    IN  IF st.failed
        THEN \* the exception leaves the `with` block: the connection rolls
             \* back every write since the transaction began
             [user_tokens |-> user_tokens,
              recipes |-> recipes,
              user_recipes |-> user_recipes,
              tokens |-> st.tokens, added |-> st.added, skipped |-> st.skipped,
              failed |-> TRUE]
        ELSE [user_tokens |-> SetUserTokens(tok_tbl, user_id, st.tokens),
              recipes |-> st.recipes,
              user_recipes |-> st.user_recipes,
              tokens |-> st.tokens, added |-> st.added, skipped |-> st.skipped,
              failed |-> FALSE]

\* the response of add_category, with what the request read and wrote:
\* tokens and owned_ids are the handler's reads, tokens_stored the stored
\* balance its set_user_tokens overwrote, new_owned the ownership rows and
\* new_recipes the recipe rows that exist after its transaction and did
\* not before
CategoryResp(user_id, data, tokens, owned_ids, stored, c) ==
    [op |-> IF c.failed THEN "add_category_error" ELSE "add_category",
     user |-> user_id, status |-> IF c.failed THEN 500 ELSE 302,
     data |-> data, items |-> ItemsOf(data), tokens |-> tokens, owned_ids |-> owned_ids,
     added |-> c.added, skipped |-> c.skipped,
     tokens_stored |-> stored,
     new_owned |-> OwnedIds(c.user_recipes, user_id) \ OwnedIds(user_recipes, user_id),
     new_recipes |-> (DOMAIN c.recipes) \ (DOMAIN recipes)]

\* add_category when the ranking fetch failed: abort(502) before the
\* handler opens a database connection
AddCategoryUpstream(user_id, data) ==
    /\ RankingFailed(data)
    /\ last' = [op |-> "add_category_abort", user |-> user_id, status |-> 502,
                data |-> data]
    /\ UNCHANGED <<now, user_tokens, recipes, user_recipes, req>>

\* add_category when ensure_user_tokens writes (row created or refilled):
\* the transaction is open from that write on, so the owned-ids SELECT,
\* the loop and set_user_tokens follow without another writer in between.
AddCategoryLocked(user_id, cid, data) ==
    LET e == EnsureUserTokens(user_tokens, user_id, now)
        owned_ids == OwnedIds(user_recipes, user_id)
        c == CategoryCommit(ItemsOf(data), owned_ids, user_id, cid, e.tokens,
                            e.tbl, recipes, user_recipes)
    IN  /\ ~RankingFailed(data)
        /\ e.wrote
        /\ TokensTracked(c.user_tokens)
        /\ user_tokens' = c.user_tokens
        /\ recipes' = c.recipes
        /\ user_recipes' = c.user_recipes
        /\ last' = CategoryResp(user_id, data, e.tokens, owned_ids,
                                 e.tokens, c)
        /\ UNCHANGED <<now, req>>

\* add_category, ensure_user_tokens reading a row that needs no refill:
\* nothing is written yet and no transaction is open.
AddCategoryEnsure(r, user_id) ==
    LET e == EnsureUserTokens(user_tokens, user_id, now)
    IN  /\ req[r].pc = "idle"
        /\ ~e.wrote
        /\ last' = EnsureRecord(user_tokens, user_id, now)
        /\ req' = [req EXCEPT ![r] =
                      [pc |-> "cat_owned", user |-> user_id, tokens |-> e.tokens]]
        /\ UNCHANGED <<now, user_tokens, recipes, user_recipes>>

\* the SELECT of the owned recipe ids
AddCategoryOwned(r) ==
    /\ req[r].pc = "cat_owned"
    /\ req' = [req EXCEPT ![r] =
                  [pc |-> "cat_loop", user |-> req[r].user,
                   tokens |-> req[r].tokens,
                   owned_ids |-> OwnedIds(user_recipes, req[r].user)]]
    /\ last' = NoResp
    /\ UNCHANGED <<now, user_tokens, recipes, user_recipes>>

\* the loop and set_user_tokens, committed.  The ranking data was fetched
\* (and found usable) before the transaction and depends on nothing in the
\* tables, so it is drawn here, where it is first used.
AddCategoryCommit(r, cid, data) ==
    /\ req[r].pc = "cat_loop"
    /\ ~RankingFailed(data)
    /\ LET q == req[r]
           c == CategoryCommit(ItemsOf(data), q.owned_ids, q.user, cid, q.tokens,
                               user_tokens, recipes, user_recipes)
       IN  /\ TokensTracked(c.user_tokens)
           /\ user_tokens' = c.user_tokens
           /\ recipes' = c.recipes
           /\ user_recipes' = c.user_recipes
           /\ last' = CategoryResp(q.user, data, q.tokens, q.owned_ids,
                                    user_tokens[q.user].tokens, c)
    /\ req' = [req EXCEPT ![r] = Idle]
    /\ UNCHANGED now

\* -------------------------------------------------------------- add_recipe
\* the response of add_recipe, with what the request read and wrote:
\* recipe_id is the form input after strip(), tokens the value returned by
\* ensure_user_tokens (0 - 1 when it was not called), fetches the number of
\* fetch_recipe_by_id calls, tokens_stored the stored balance before the
\* step (0 - 1 without a row), new_owned the ownership rows and new_recipes
\* the recipe rows that exist after the step and did not before.  `repeat`
\* says that the request before this one was a successful add_recipe of
\* the same user with the same input, owned_at_start that the user had
\* an ownership row with this recipe_id when the request began.
RecipeResp(user_id, recipe_id, status, tokens, fetches, start, rec_tbl, own_tbl) ==
    [op |-> "add_recipe", user |-> user_id, status |-> status,
     recipe_id |-> recipe_id, tokens |-> tokens, fetches |-> fetches,
     repeat |-> start.repeat, owned_at_start |-> start.owned,
     tokens_stored |-> IF user_id \in DOMAIN user_tokens
                       THEN user_tokens[user_id].tokens ELSE 0 - 1,
     new_owned |-> OwnedIds(own_tbl, user_id) \ OwnedIds(user_recipes, user_id),
     new_recipes |-> (DOMAIN rec_tbl) \ (DOMAIN recipes)]

\* SELECT 1 FROM user_recipes WHERE user_id = ? AND recipe_id = ?
\* (recipe_id is a TEXT column compared with the text of the form input)
IsOwned(tbl, user_id, recipe_id) == <<user_id, recipe_id>> \in tbl

\* history, taken when a request begins: the request before this one was a
\* successful add_recipe of the same user with the same input; the user
\* has an ownership row with this recipe_id
AtStart(user_id, recipe_id) ==
    [repeat |-> /\ last.op = "add_recipe"
                /\ last.status = 302
                /\ last.user = user_id
                /\ last.recipe_id = recipe_id,
     owned |-> IsOwned(user_recipes, user_id, recipe_id)]

\* mutant: only a balance below zero counts as exhausted
ExhaustedBelowZero(tokens) == tokens < 0

\* if tokens <= 0
Exhausted(tokens) == tokens <= 0

\* recipeId is not all digits: 400, before any table is read
AddRecipeInvalid(user_id, input) ==
    LET recipe_id == Strip(input)
    IN  /\ ~IsDigit(recipe_id)
        /\ last' = RecipeResp(user_id, recipe_id, 400, 0 - 1, 0,
                              AtStart(user_id, recipe_id),
                              recipes, user_recipes)
        /\ UNCHANGED <<now, user_tokens, recipes, user_recipes, req>>

\* ensure_user_tokens returns no tokens: 403; the first `with` block
\* commits what ensure_user_tokens wrote
AddRecipeExhausted(user_id, input) ==
    LET recipe_id == Strip(input)
        e == EnsureUserTokens(user_tokens, user_id, now)
    IN  /\ IsDigit(recipe_id)
        /\ Exhausted(e.tokens)
        /\ user_tokens' = e.tbl
        /\ last' = RecipeResp(user_id, recipe_id, 403, e.tokens, 0,
                              AtStart(user_id, recipe_id),
                              recipes, user_recipes)
        /\ UNCHANGED <<now, recipes, user_recipes, req>>

\* ensure_user_tokens writes (row created or refilled) and returns tokens:
\* the ownership SELECT follows inside the transaction that write opened
AddRecipeLocked(r, user_id, input) ==
    LET recipe_id == Strip(input)
        e == EnsureUserTokens(user_tokens, user_id, now)
        start == AtStart(user_id, recipe_id)
    IN  /\ req[r].pc = "idle"
        /\ IsDigit(recipe_id)
        /\ ~Exhausted(e.tokens)
        /\ e.wrote
        /\ user_tokens' = e.tbl
        /\ IF IsOwned(user_recipes, user_id, recipe_id)
           THEN /\ last' = RecipeResp(user_id, recipe_id, 200, e.tokens, 0,
                                      start, recipes, user_recipes)
                /\ req' = req
           ELSE /\ last' = NoResp
                /\ req' = [req EXCEPT ![r] =
                              [pc |-> "rec_fetch", user |-> user_id,
                               recipe_id |-> recipe_id, tokens |-> e.tokens,
                               start |-> start]]
        /\ UNCHANGED <<now, recipes, user_recipes>>

\* ensure_user_tokens reads a row that needs no refill and has tokens
AddRecipeEnsure(r, user_id, input) ==
    LET recipe_id == Strip(input)
        e == EnsureUserTokens(user_tokens, user_id, now)
    IN  /\ req[r].pc = "idle"
        /\ IsDigit(recipe_id)
        /\ ~Exhausted(e.tokens)
        /\ ~e.wrote
        /\ last' = EnsureRecord(user_tokens, user_id, now)
        /\ req' = [req EXCEPT ![r] =
                      [pc |-> "rec_owned", user |-> user_id,
                       recipe_id |-> recipe_id, tokens |-> e.tokens,
                       start |-> AtStart(user_id, recipe_id)]]
        /\ UNCHANGED <<now, user_tokens, recipes, user_recipes>>

\* the ownership SELECT: 200 "already in your list" when a row is found
AddRecipeOwned(r) ==
    /\ req[r].pc = "rec_owned"
    /\ LET q == req[r]
       IN  IF IsOwned(user_recipes, q.user, q.recipe_id)
           THEN /\ last' = RecipeResp(q.user, q.recipe_id, 200, q.tokens, 0,
                                      q.start, recipes, user_recipes)
                /\ req' = [req EXCEPT ![r] = Idle]
           ELSE /\ last' = NoResp
                /\ req' = [req EXCEPT ![r] =
                              [pc |-> "rec_fetch", user |-> q.user,
                               recipe_id |-> q.recipe_id, tokens |-> q.tokens,
                               start |-> q.start]]
    /\ UNCHANGED <<now, user_tokens, recipes, user_recipes>>

\* mutant: the 404 path writes tokens - 1 like the success path
AddRecipeNotFoundCharged(r) ==
    /\ req[r].pc = "rec_fetch"
    /\ LET q == req[r]
       IN  /\ user_tokens' = SetUserTokens(user_tokens, q.user, q.tokens - 1)
           /\ last' = RecipeResp(q.user, q.recipe_id, 404, q.tokens, 1, q.start,
                                 recipes, user_recipes)
    /\ req' = [req EXCEPT ![r] = Idle]
    /\ UNCHANGED <<now, recipes, user_recipes>>

\* fetch_recipe_by_id returns None (no response, no Recipe block, or
\* int(rid) raised): 404, nothing written
AddRecipeNotFound(r) ==
    /\ req[r].pc = "rec_fetch"
    /\ LET q == req[r]
       IN  last' = RecipeResp(q.user, q.recipe_id, 404, q.tokens, 1, q.start,
                              recipes, user_recipes)
    /\ req' = [req EXCEPT ![r] = Idle]
    /\ UNCHANGED <<now, user_tokens, recipes, user_recipes>>

\* mutant: the rows are stored under the recipeId as it was typed
RecipeStoreRaw(user_id, recipe_id, tokens, tok_tbl, rec_tbl, own_tbl) ==
    [user_tokens |-> SetUserTokens(tok_tbl, user_id, tokens - 1),
     recipes |-> UpsertRecipe(rec_tbl, recipe_id, "manual"),
     user_recipes |-> InsertUserRecipe(own_tbl, user_id, recipe_id)]

\* the tables after the second `with` block of add_recipe: the recipe
\* returned by fetch_recipe_by_id carries recipeId = int(rid)
RecipeStore(user_id, recipe_id, tokens, tok_tbl, rec_tbl, own_tbl) ==
    LET stored_id == StrOf(IntOf(recipe_id))
    IN  [user_tokens |-> SetUserTokens(tok_tbl, user_id, tokens - 1),
         recipes |-> UpsertRecipe(rec_tbl, stored_id, "manual"),
         user_recipes |-> InsertUserRecipe(own_tbl, user_id, stored_id)]

\* fetch_recipe_by_id returns a recipe: it is stored, the ownership row
\* inserted and tokens - 1 written, in one transaction
AddRecipeStore(r) ==
    /\ req[r].pc = "rec_fetch"
    /\ IntParses(req[r].recipe_id)
    /\ LET q == req[r]
           w == RecipeStore(q.user, q.recipe_id, q.tokens,
                            user_tokens, recipes, user_recipes)
       IN  /\ TokensTracked(w.user_tokens)
           /\ user_tokens' = w.user_tokens
           /\ recipes' = w.recipes
           /\ user_recipes' = w.user_recipes
           /\ last' = RecipeResp(q.user, q.recipe_id, 302, q.tokens, 1, q.start,
                                 w.recipes, w.user_recipes)
    /\ req' = [req EXCEPT ![r] = Idle]
    /\ UNCHANGED now

\* ------------------------------------------------------- the fetch loops
\* fetch_category_list, fetch_recipe_by_id and fetch_category_ranking: one
\* loop `for attempt in range(1, max_retries + 1)` each
FetchKinds == {"category_list", "recipe_by_id", "category_ranking"}

\* if r.status_code in (429, 500, 502, 503, 504)
TransientStatus == {429, 500, 502, 503, 504}
\* the statuses a transport answers with: the transient ones, a success, a
\* 3xx that is not followed (no Location) and a client error
Statuses == TransientStatus \cup {200, 300, 404}

\* the body of a response: of the JSON endpoints, text that json() does not
\* read, an object with an "error" field, or another payload; of the recipe
\* page, HTML with a JSON-LD block of type Recipe or without one
Bodies(kind) ==
    IF kind = "recipe_by_id" THEN {"recipe", "no_recipe"}
    ELSE {"unparseable", "error", "payload"}

\* what one requests.get does: it raises, or it returns a response
Raised == [raised |-> TRUE, status |-> 0, body |-> "none"]
Outcomes(kind) ==
    {Raised} \cup {[raised |-> FALSE, status |-> st, body |-> b] :
                     st \in Statuses, b \in Bodies(kind)}

\* the recipe ids fetch_recipe_by_id is called with
FetchIds == {<<"1">>, <<"a">>, <<SuperscriptTwo>>}

\* r.raise_for_status() raises HTTPError
RaiseForStatus(status) == status >= 400 /\ status < 600

\* the loop body with what a transient status, and a page without a Recipe
\* block, lead to as parameters
AttemptVariant(kind, rid, o, on_transient, on_missing) ==
    IF o.raised THEN "retry"
    ELSE IF o.status \in TransientStatus THEN on_transient
    ELSE IF RaiseForStatus(o.status) THEN "retry"
    ELSE IF kind = "recipe_by_id"
    THEN IF o.body = "recipe"
         THEN IF IntParses(rid) THEN "return" ELSE "retry"
         ELSE on_missing
    ELSE IF o.body = "unparseable" THEN "retry"
    ELSE IF o.body = "error" THEN "retry"
    ELSE "return"

\* mutant: a transient status ends the call with None
AttemptResultNoRetry(kind, rid, o) ==
    AttemptVariant(kind, rid, o, "none", "none")

\* mutant: a page without a Recipe block is fetched again
AttemptResultRetryMissing(kind, rid, o) ==
    AttemptVariant(kind, rid, o, "retry", "retry")

\* One pass through the loop body: "retry" when the attempt sleeps and the
\* loop goes on (`continue`, or the `except Exception` branch), "return"
\* when it returns data, "none" when it returns None
AttemptResult(kind, rid, o) ==
    IF o.raised THEN "retry"
    ELSE IF o.status \in TransientStatus THEN "retry"
    ELSE IF RaiseForStatus(o.status) THEN "retry"
    ELSE IF kind = "recipe_by_id"
    THEN IF o.body = "recipe"
         THEN IF IntParses(rid) THEN "return" ELSE "retry"
         ELSE "none"
    ELSE IF o.body = "unparseable" THEN "retry"
    ELSE IF o.body = "error" THEN "retry"
    ELSE "return"

\* the value a fetch returns: None, or the data of the attempt `attempt`
NoPayload == [none |-> TRUE, attempt |-> 0]
PayloadOf(attempt) == [none |-> FALSE, attempt |-> attempt]

\* history record of a completed fetch: the outcomes of its attempts in
\* order, the attempts after which it slept, and what it returned
FetchResp(kind, rid, outcomes, sleeps, result) ==
    [op |-> "fetch", user |-> 0, kind |-> kind, rid |-> rid,
     outcomes |-> outcomes, sleeps |-> sleeps, result |-> result]

\* the call: fetch_recipe_by_id returns None at once for an id that is not
\* all digits; otherwise the loop starts with attempt 1
FetchStart(r, kind, rid) ==
    /\ req[r].pc = "idle"
    /\ IF kind = "recipe_by_id" /\ ~IsDigit(Strip(rid))
       THEN /\ last' = FetchResp(kind, rid, <<>>, <<>>, NoPayload)
            /\ req' = req
       ELSE /\ last' = NoResp
            /\ req' = [req EXCEPT ![r] =
                          [pc |-> "fetching", kind |-> kind, rid |-> Strip(rid),
                           attempt |-> 1, outcomes |-> <<>>, sleeps |-> <<>>]]
    /\ UNCHANGED <<now, user_tokens, recipes, user_recipes>>

\* one attempt: requests.get and the rest of the loop body; after a failed
\* attempt the loop sleeps, and returns None when that was the last one
FetchAttempt(r, o) ==
    /\ req[r].pc = "fetching"
    /\ LET q == req[r]
           res == AttemptResult(q.kind, q.rid, o)
           outcomes == Append(q.outcomes, o)
           sleeps == Append(q.sleeps, q.attempt)
       IN  /\ o \in Outcomes(q.kind)
           /\ IF res = "return"
              THEN /\ last' = FetchResp(q.kind, q.rid, outcomes, q.sleeps,
                                        PayloadOf(q.attempt))
                   /\ req' = [req EXCEPT ![r] = Idle]
              ELSE IF res = "none"
              THEN /\ last' = FetchResp(q.kind, q.rid, outcomes, q.sleeps,
                                        NoPayload)
                   /\ req' = [req EXCEPT ![r] = Idle]
              ELSE IF q.attempt < MAX_RETRIES
              THEN /\ last' = NoResp
                   /\ req' = [req EXCEPT ![r].attempt = @ + 1,
                                         ![r].outcomes = outcomes,
                                         ![r].sleeps = sleeps]
              ELSE /\ last' = FetchResp(q.kind, q.rid, outcomes, sleeps,
                                        NoPayload)
                   /\ req' = [req EXCEPT ![r] = Idle]
    /\ UNCHANGED <<now, user_tokens, recipes, user_recipes>>

\* the handlers, for requests in the slots R of the users U, with the form
\* inputs and the ranking results drawn from the given sets
HandlersOn(R, U, inputs, results) ==
    \/ \E u \in U : Index(u)
    \/ \E u \in U, data \in results : AddCategoryUpstream(u, data)
    \/ \E u \in U, cid \in Categories, data \in results :
          AddCategoryLocked(u, cid, data)
    \/ \E r \in R, u \in U : AddCategoryEnsure(r, u)
    \/ \E r \in R : AddCategoryOwned(r)
    \/ \E r \in R, cid \in Categories, data \in results :
          AddCategoryCommit(r, cid, data)
    \/ \E u \in U, input \in inputs : AddRecipeInvalid(u, input)
    \/ \E u \in U, input \in inputs : AddRecipeExhausted(u, input)
    \/ \E r \in R, u \in U, input \in inputs : AddRecipeLocked(r, u, input)
    \/ \E r \in R, u \in U, input \in inputs : AddRecipeEnsure(r, u, input)
    \/ \E r \in R : AddRecipeOwned(r)
    \/ \E r \in R : AddRecipeNotFound(r)
    \/ \E r \in R : AddRecipeStore(r)

Handlers(R, U) == HandlersOn(R, U, FormInputs, RankingResults)

Next ==
    \/ Tick
    \/ Handlers(Reqs, Users)

Spec == Init /\ [][Next]_vars

\* Two requests of one user in flight, within one refill window
RaceUsers == {1}
RaceSlots == 1..RaceReqs
\* the form inputs of the racing requests: one id in its plain spelling, one
\* with a leading zero, and one that is no number
RaceInputs == {<<"1">>, <<"0", "1">>, <<"a">>}

InitRace ==
    /\ now = StartNow
    /\ InitStore
    /\ req = [r \in RaceSlots |-> Idle]

NextRace == HandlersOn(RaceSlots, RaceUsers, RaceInputs, RankingResults)

SpecRace == InitRace /\ [][NextRace]_vars

\* The clock minute by minute, and the page that shows the balance
ClockTick ==
    /\ now < MaxClockMinute
    /\ now' = now + 1
    /\ last' = NoResp
    /\ UNCHANGED <<user_tokens, recipes, user_recipes, req>>

InitClock ==
    /\ now = 0
    /\ InitStore
    /\ req = [r \in Reqs |-> Idle]

NextClock ==
    \/ ClockTick
    \/ \E u \in Users : Index(u)

SpecClock == InitClock /\ [][NextClock]_vars

\* Two users, one request in flight at a time, over a refill boundary
ActorUsers == 1..NumActors
ActorInputs == {<<"1">>, <<"a">>}
ActorResults == {d \in RankingResults : Len(d.result) <= 1}

InitActors ==
    /\ now = StartNow
    /\ user_tokens \in UNION {[S -> InitRows] : S \in SUBSET ActorUsers}
    /\ recipes = <<>>
    /\ user_recipes = {}
    /\ last = NoResp
    /\ req = [r \in Reqs |-> Idle]

\* the clock passes the refill hour of the first day
ActorTick ==
    /\ now = StartNow
    /\ now' = RefillMinute
    /\ UNCHANGED <<user_tokens, recipes, user_recipes, req, last>>

NextActors ==
    \/ ActorTick
    \/ HandlersOn(Reqs, ActorUsers, ActorInputs, ActorResults)

SpecActors == InitActors /\ [][NextActors]_vars

\* Quota rows whose last_refill_at is malformed or lies after the current
\* boundary (a clock set back, a row edited by hand), read by the pages
\* that show the balance
SkewTokens == {0, LowTokens, MAX_TOKENS}
SkewRefills ==
    {Malformed}
    \cup {AsUtc(MostRecentRefillBoundary(t) + d * DayMinutes) :
             t \in Instants, d \in 0..MaxSkewDays}

InitSkew ==
    /\ now = StartNow
    /\ user_tokens \in [Users -> [tokens : SkewTokens, last_refill_at : SkewRefills]]
    /\ recipes = <<>>
    /\ user_recipes = {}
    /\ last = NoResp
    /\ req = [r \in Reqs |-> Idle]

NextSkew ==
    \/ Tick
    \/ \E u \in Users : Index(u)

SpecSkew == InitSkew /\ [][NextSkew]_vars

\* The fetch loops alone, against a transport that answers each attempt
\* in any way
InitFetch ==
    /\ now = StartNow
    /\ user_tokens = <<>>
    /\ recipes = <<>>
    /\ user_recipes = {}
    /\ last = NoResp
    /\ req = [r \in Reqs |-> Idle]

AllOutcomes == UNION {Outcomes(kind) : kind \in FetchKinds}

NextFetch ==
    \/ \E r \in Reqs, kind \in FetchKinds, rid \in FetchIds :
          FetchStart(r, kind, IF kind = "recipe_by_id" THEN rid ELSE <<>>)
    \/ \E r \in Reqs, o \in AllOutcomes : FetchAttempt(r, o)

SpecFetch == InitFetch /\ [][NextFetch]_vars


\* ------------------------------------------------------ _flatten_categories
\* A JSON value in the place of an id: null or an absent key (None), a
\* number, or a string
JsonNone == [t |-> "none", n |-> 0, s |-> <<>>]
JsonInt(k) == [t |-> "int", n |-> k, s |-> <<>>]
JsonStr(x) == [t |-> "str", n |-> 0, s |-> x]
IsNone(v) == v.t = "none"

\* str(v), also what an f-string puts in the place of {v}
Str(v) ==
    IF v.t = "int" THEN StrOf(v.n)
    ELSE IF v.t = "str" THEN v.s
    ELSE <<"N", "o", "n", "e">>

\* An entry of the category list. A categoryName of <<>> is a name that
\* `not name` takes as missing: None, an absent key or the empty string.
CatEntry(cid, name, parent) ==
    [categoryId |-> cid, categoryName |-> name, parentCategoryId |-> parent]

\* what dict.get returns for a key that is absent: every field is None
EmptyDict == CatEntry(JsonNone, <<>>, JsonNone)

\* large_by_id / medium_by_id: {str(c.get("categoryId")): c for c in ...
\* if c.get("categoryId") is not None}, read with .get(key, {}); of two
\* entries with one key the later one stays in the dict
ById(entries, key) ==
    LET at == {i \in 1..Len(entries) :
                  /\ ~IsNone(entries[i].categoryId)
                  /\ Str(entries[i].categoryId) = key}
    IN  IF at = {} THEN EmptyDict
        ELSE entries[CHOOSE i \in at : \A j \in at : j <= i]

\* an element of `out`; Skipped stands for an entry the loop passes over
OutEntry(cid, name, path) == [categoryId |-> cid, name |-> name, path |-> path]
Skipped == OutEntry(<<>>, <<>>, <<>>)

\* the body of the loop over the large categories
LargeEntry(c) ==
    IF IsNone(c.categoryId) \/ c.categoryName = <<>> THEN Skipped
    ELSE OutEntry(Str(c.categoryId), c.categoryName, c.categoryName)

\* mutant: a medium category whose large parent has no name is passed over
MediumEntryStrict(large, c) ==
    IF IsNone(c.categoryId) \/ IsNone(c.parentCategoryId) \/ c.categoryName = <<>>
    THEN Skipped
    ELSE LET parent_name == ById(large, Str(c.parentCategoryId)).categoryName
         IN  IF parent_name = <<>> THEN Skipped
             ELSE OutEntry(Str(c.parentCategoryId) \o <<"-">> \o Str(c.categoryId),
                           c.categoryName,
                           parent_name \o <<">">> \o c.categoryName)

\* the body of the loop over the medium categories
MediumEntry(large, c) ==
    IF IsNone(c.categoryId) \/ IsNone(c.parentCategoryId) \/ c.categoryName = <<>>
    THEN Skipped
    ELSE LET parent_name == ById(large, Str(c.parentCategoryId)).categoryName
         IN  OutEntry(Str(c.parentCategoryId) \o <<"-">> \o Str(c.categoryId),
                      c.categoryName,
                      IF parent_name # <<>>
                      THEN parent_name \o <<">">> \o c.categoryName
                      ELSE c.categoryName)

\* the body of the loop over the small categories
SmallEntry(large, medium, c) ==
    IF IsNone(c.categoryId) \/ IsNone(c.parentCategoryId) \/ c.categoryName = <<>>
    THEN Skipped
    ELSE LET med == ById(medium, Str(c.parentCategoryId))
             med_name == med.categoryName
             large_parent == med.parentCategoryId
             large_name == IF ~IsNone(large_parent)
                           THEN ById(large, Str(large_parent)).categoryName
                           ELSE <<>>
             path == IF large_name # <<>> /\ med_name # <<>>
                     THEN large_name \o <<">">> \o med_name \o <<">">>
                              \o c.categoryName
                     ELSE IF med_name # <<>>
                     THEN med_name \o <<">">> \o c.categoryName
                     ELSE c.categoryName
         IN  IF IsNone(large_parent) THEN Skipped
             ELSE OutEntry(Str(large_parent) \o <<"-">> \o Str(c.parentCategoryId)
                               \o <<"-">> \o Str(c.categoryId),
                           c.categoryName, path)

\* the entries a loop appended, in the order of its input
Appended(steps) == SelectSeq(steps, LAMBDA e : e # Skipped)

\* mutant: no entry is dropped
DedupNone(out) == out

\* the last loop: the first entry of each categoryId, in the order of out
RECURSIVE DedupLoop(_, _, _)
DedupLoop(out, seen, deduped) ==
    IF out = <<>> THEN deduped
    ELSE IF Head(out).categoryId \in seen
    THEN DedupLoop(Tail(out), seen, deduped)
    ELSE DedupLoop(Tail(out), seen \cup {Head(out).categoryId},
                   Append(deduped, Head(out)))

Dedup(out) == DedupLoop(out, {}, <<>>)

\* _flatten_categories(cat_json): what each loop made of each entry of its
\* list, the list out before the last loop, and the list returned
FlattenCategories(cat_json) ==
    LET large == cat_json.large
        medium == cat_json.medium
        small == cat_json.small
        large_steps == [i \in 1..Len(large) |-> LargeEntry(large[i])]
        medium_steps == [i \in 1..Len(medium) |-> MediumEntry(large, medium[i])]
        small_steps == [i \in 1..Len(small) |-> SmallEntry(large, medium, small[i])]
        out == Appended(large_steps) \o Appended(medium_steps)
                    \o Appended(small_steps)
    IN  [op |-> "flatten", user |-> 0, cat_json |-> cat_json,
         large_steps |-> large_steps, medium_steps |-> medium_steps,
         small_steps |-> small_steps, out |-> out, deduped |-> Dedup(out)]

\* Category lists the function is applied to: ids that are numbers or
\* strings (equal after str(), or equal to a composite id), names that are
\* missing, parents that are missing or in no list
LargePool ==
    {CatEntry(JsonInt(1), <<"a">>, JsonNone),
     CatEntry(JsonStr(<<"1">>), <<"b">>, JsonNone),
     CatEntry(JsonStr(<<"1", "-", "2">>), <<"b">>, JsonNone),
     CatEntry(JsonNone, <<"a">>, JsonNone)}
MediumPool ==
    {CatEntry(JsonInt(2), <<"a">>, JsonInt(1)),
     CatEntry(JsonInt(2), <<"b">>, JsonInt(1)),
     CatEntry(JsonInt(2), <<"a">>, JsonNone),
     CatEntry(JsonInt(2), <<>>, JsonInt(1)),
     CatEntry(JsonInt(1), <<"a">>, JsonInt(2)),
     CatEntry(JsonNone, <<"a">>, JsonInt(1))}
SmallPool ==
    {CatEntry(JsonInt(1), <<"a">>, JsonInt(2)),
     CatEntry(JsonInt(1), <<"b">>, JsonStr(<<"2">>)),
     CatEntry(JsonInt(2), <<"a">>, JsonInt(1)),
     CatEntry(JsonInt(2), <<>>, JsonInt(1)),
     CatEntry(JsonInt(1), <<"a">>, JsonNone)}
CatJsons ==
    [large : StringsUpTo(LargePool, MaxLarge),
     medium : StringsUpTo(MediumPool, MaxMedium),
     small : StringsUpTo(SmallPool, MaxSmall)]

InitFlatten ==
    /\ now = StartNow
    /\ user_tokens = <<>>
    /\ recipes = <<>>
    /\ user_recipes = {}
    /\ last = NoResp
    /\ req \in [Reqs -> [pc : {"flatten"}, cat_json : CatJsons]]

\* the call _flatten_categories(cat_json)
Flatten(r) ==
    /\ req[r].pc = "flatten"
    /\ last' = FlattenCategories(req[r].cat_json)
    /\ req' = [req EXCEPT ![r] = Idle]
    /\ UNCHANGED <<now, user_tokens, recipes, user_recipes>>

NextFlatten == \E r \in Reqs : Flatten(r)

SpecFlatten == InitFlatten /\ [][NextFlatten]_vars

\* ------------------------------------------------------- suggest_categories
\* str.lower() on the letters the queries and the names are written with
LowerChar(c) == IF c = "A" THEN "a" ELSE IF c = "B" THEN "b" ELSE c
Lower(s) == [i \in 1..Len(s) |-> LowerChar(s[i])]

\* sub in text
Contains(text, sub) ==
    \E i \in 0..(Len(text) - Len(sub)) : SubSeq(text, i + 1, i + Len(sub)) = sub

\* Of the characters the pattern [\s\u3000,、/・] matches, the two that
\* the queries are written with
Separators == {" ", ","}

\* re.split on runs of separators, then the empty pieces dropped
RECURSIVE SplitLoop(_, _, _)
SplitLoop(s, piece, pieces) ==
    IF s = <<>>
    THEN IF piece = <<>> THEN pieces ELSE Append(pieces, piece)
    ELSE IF Head(s) \in Separators
    THEN SplitLoop(Tail(s), <<>>,
                   IF piece = <<>> THEN pieces ELSE Append(pieces, piece))
    ELSE SplitLoop(Tail(s), Append(piece, Head(s)), pieces)

\* tokens: the pieces of q, stripped and lower-cased
Tokens(q) ==
    LET pieces == SplitLoop(q, <<>>, <<>>)
    IN  [i \in 1..Len(pieces) |-> Lower(Strip(pieces[i]))]

\* text = f"{name} {path}".lower()
TextOf(c) == Lower(c.name \o <<" ">> \o c.path)

\* the loop over the tokens: 2 for each one found in text
RECURSIVE TokenScore(_, _)
TokenScore(tokens, text) ==
    IF tokens = <<>> THEN 0
    ELSE (IF Contains(text, Head(tokens)) THEN 2 ELSE 0)
             + TokenScore(Tail(tokens), text)

\* the score of one category
Score(q_low, tokens, c) ==
    (IF Contains(TextOf(c), q_low) THEN 5 ELSE 0) + TokenScore(tokens, TextOf(c))

\* {**c, "score": score}
ScoredEntry(c, score) ==
    [categoryId |-> c.categoryId, name |-> c.name, path |-> c.path,
     score |-> score]

\* the loop over cats: the categories of a positive score, in their order
RECURSIVE ScoreLoop(_, _, _)
ScoreLoop(cats, q_low, tokens) ==
    IF cats = <<>> THEN <<>>
    ELSE LET score == Score(q_low, tokens, Head(cats))
             rest == ScoreLoop(Tail(cats), q_low, tokens)
         IN  IF score > 0 THEN <<ScoredEntry(Head(cats), score)>> \o rest
             ELSE rest

\* the sort key (-score, len(path)) of a comes before that of b
KeyBefore(a, b) ==
    a.score > b.score \/ (a.score = b.score /\ Len(a.path) < Len(b.path))

\* list.sort is stable: an entry goes behind the entries of the same key
\* that stood before it
RECURSIVE InsertByKey(_, _)
InsertByKey(sorted, x) ==
    IF sorted = <<>> THEN <<x>>
    ELSE IF KeyBefore(x, Head(sorted)) THEN <<x>> \o sorted
    ELSE <<Head(sorted)>> \o InsertByKey(Tail(sorted), x)

\* mutant: the list is left in the order of cats
SortScoredNone(scored) == scored

RECURSIVE SortScored(_)
SortScored(scored) ==
    IF scored = <<>> THEN <<>>
    ELSE InsertByKey(SortScored(SubSeq(scored, 1, Len(scored) - 1)),
                     scored[Len(scored)])

\* what fetch_category_list and _flatten_categories hand to the scoring:
\* no catalog (the fetch returned None), or the flat list
NoCatalog == [none |-> TRUE, cats |-> <<>>]
Catalog(cats) == [none |-> FALSE, cats |-> cats]

\* suggest_categories(app_id, query, limit)
SuggestCategories(query, limit, fetched) ==
    LET q == Strip(query)
        tokens == Tokens(q)
        q_low == Lower(q)
        scored == SortScored(ScoreLoop(fetched.cats, q_low, tokens))
    IN  [op |-> "suggest", user |-> 0, query |-> query, limit |-> limit,
         fetched |-> fetched,
         returned |-> IF q = <<>> \/ fetched.none THEN <<>>
                      ELSE SubSeq(scored, 1, Min(limit, Len(scored)))]

\* Queries of letters in both cases, blanks and commas; flat lists as
\* _flatten_categories returns them, no categoryId twice
QueryChars == {"a", "B", " ", ","}
Queries == StringsUpTo(QueryChars, MaxQueryLen)
Limits == 1..MaxLimit
SuggestPool ==
    {OutEntry(<<"1">>, <<"a">>, <<"a">>),
     OutEntry(<<"1", "-", "2">>, <<"B">>, <<"a", ">", "B">>),
     OutEntry(<<"2">>, <<"b">>, <<"b">>),
     OutEntry(<<"3">>, <<"a", " ", "B">>, <<"a", " ", "B">>)}
Catalogs ==
    {NoCatalog}
    \cup {Catalog(cats) : cats \in
             {l \in StringsUpTo(SuggestPool, MaxCats) :
                 \A i, j \in 1..Len(l) : i # j => l[i] # l[j]}}

InitSuggest ==
    /\ now = StartNow
    /\ user_tokens = <<>>
    /\ recipes = <<>>
    /\ user_recipes = {}
    /\ last = NoResp
    /\ req \in [Reqs -> [pc : {"suggest"}, query : Queries, limit : Limits,
                          fetched : Catalogs]]

\* the call suggest_categories(app_id, query, limit)
Suggest(r) ==
    /\ req[r].pc = "suggest"
    /\ last' = SuggestCategories(req[r].query, req[r].limit, req[r].fetched)
    /\ req' = [req EXCEPT ![r] = Idle]
    /\ UNCHANGED <<now, user_tokens, recipes, user_recipes>>

NextSuggest == \E r \in Reqs : Suggest(r)

SpecSuggest == InitSuggest /\ [][NextSuggest]_vars

\* ===================================================================== claims
Max(a, b) == IF a >= b THEN a ELSE b
IsIngestion == last.op \in {"add_category", "add_recipe"}
\* the stored balance of the user of the latest request
StoredTokens == user_tokens[last.user].tokens
\* positions of a batch whose item has a recipeId the reads found owned / not
OwnedAt(items, owned_ids) ==
    {i \in 1..Len(items) : items[i] # NoId /\ ItemIdStr(items[i]) \in owned_ids}
UnownedAt(items, owned_ids) ==
    {i \in 1..Len(items) : items[i] # NoId /\ ItemIdStr(items[i]) \notin owned_ids}
\* every item has a recipeId and no recipeId occurs twice
DistinctItems(items) ==
    /\ \A i \in 1..Len(items) : items[i] # NoId
    /\ \A i, j \in 1..Len(items) : items[i] = items[j] => i = j

\* C1: every stored quota balance satisfies 0 <= balance <= MaxBalance, in
\* every reachable state, whatever requests ran and however the clock moved.
C1_BalanceInRange ==
    \A u \in DOMAIN user_tokens :
        user_tokens[u].tokens >= 0 /\ user_tokens[u].tokens <= MAX_TOKENS

\* C1 witness: after the clock has advanced, an ingestion has brought a
\* stored balance to the lower end of the range.
C1_Witness ==
    /\ IsIngestion
    /\ now > StartNow
    /\ last.user \in DOMAIN user_tokens
    /\ StoredTokens = 0

\* C2 (as claimed): add_category lowers the balance by exactly the number
\* of ownership rows of the user that it created.
C2_ChargePerNewRow ==
    last.op = "add_category" =>
        last.tokens - StoredTokens = Cardinality(last.new_owned)

\* C3 (as claimed): an ingestion's read of the balance and its write are
\* atomic with respect to other requests of the user: the balance it
\* leaves is the balance stored just before its write less what it added.
C3_AtomicReadWrite ==
    /\ (last.op = "add_category" =>
            StoredTokens = last.tokens_stored - last.added)
    /\ (last.op = "add_recipe" /\ last.status = 302 =>
            StoredTokens = last.tokens_stored - 1)

\* C4: add_category with balance b on n distinct items, none owned, adds
\* min(b, n), skips none, leaves b - min(b, n), and writes no recipe row
\* and no ownership row for the items after the first min(b, n).
C4_StopsOnExhaustion ==
    (/\ last.op = "add_category"
     /\ DistinctItems(last.items)
     /\ OwnedAt(last.items, last.owned_ids) = {})
    => LET b == last.tokens
           n == Len(last.items)
           m == Min(b, n)
       IN  /\ last.added = m
           /\ last.skipped = 0
           /\ StoredTokens = b - m
           /\ last.new_owned \subseteq {ItemIdStr(last.items[i]) : i \in 1..m}
           /\ \A i \in (m + 1)..n :
                 /\ ItemIdStr(last.items[i]) \notin last.new_owned
                 /\ ItemIdStr(last.items[i]) \notin last.new_recipes

\* C4 witness: the balance ran out inside a batch of distinct new items.
C4_Witness ==
    /\ last.op = "add_category"
    /\ DistinctItems(last.items)
    /\ OwnedAt(last.items, last.owned_ids) = {}
    /\ last.tokens > 0
    /\ last.tokens < Len(last.items)
    /\ last.added = last.tokens
    /\ StoredTokens = 0

\* C5 (as claimed): skipped is the number k of already-owned items of the
\* batch, whatever the balance and wherever they stand in the batch, and
\* added is at most the number of unowned items.
C5_SkippedAllOwned ==
    last.op = "add_category" =>
        /\ last.skipped = Cardinality(OwnedAt(last.items, last.owned_ids))
        /\ last.added <= Cardinality(UnownedAt(last.items, last.owned_ids))

\* the position at which the loop stops for lack of tokens: the unowned
\* item that has b unowned items before it (past the end when there is none)
StopAt(items, owned_ids, b) ==
    LET U == UnownedAt(items, owned_ids)
    IN  IF Cardinality(U) > Max(b, 0)
        THEN CHOOSE i \in U : Cardinality({j \in U : j < i}) = Max(b, 0)
        ELSE Len(items) + 1

\* C5 (amended): skipped is the number of already-owned items that stand
\* before the item at which the loop stops for lack of tokens (all k of
\* them when the balance does not run out), and added is at most the
\* number of unowned items.
C5_SkippedBeforeStop ==
    last.op = "add_category" =>
        LET stop == StopAt(last.items, last.owned_ids, last.tokens)
        IN  /\ last.skipped =
                 Cardinality({i \in OwnedAt(last.items, last.owned_ids) : i < stop})
            /\ last.added <= Cardinality(UnownedAt(last.items, last.owned_ids))
            /\ (stop > Len(last.items) =>
                  last.skipped = Cardinality(OwnedAt(last.items, last.owned_ids)))

\* C5 witness: the balance ran out at an unowned item that stands before
\* an owned one, which is then not counted.
C5_Witness ==
    /\ last.op = "add_category"
    /\ last.tokens = 0
    /\ StopAt(last.items, last.owned_ids, last.tokens) <= Len(last.items)
    /\ last.skipped < Cardinality(OwnedAt(last.items, last.owned_ids))

\* C6 (as claimed): add_recipe for an id the user already owns is a no-op
\* success at every balance: 200, no fetch, balance and rows unchanged.
C6_OwnedFirst ==
    (last.op = "add_recipe" /\ last.owned_at_start) =>
        /\ last.status = 200
        /\ last.fetches = 0
        /\ last.new_owned = {}
        /\ last.new_recipes = {}

\* C7 (as claimed): an add_recipe that repeats a successful add_recipe of
\* the same user and the same id string fetches nothing, creates no
\* ownership row and leaves the balance as ensure_user_tokens returned it.
C7_RepeatIsNoOp ==
    (last.op = "add_recipe" /\ last.repeat) =>
        /\ last.fetches = 0
        /\ last.new_owned = {}
        /\ StoredTokens = last.tokens

\* the days between the date of the stored last refill boundary and the
\* date of the current boundary, both in JST
DeltaDays(row, now_jst) ==
    DateOf(MostRecentRefillBoundary(now_jst)) - DateOf(AsJst(row.last_refill_at))

\* C8: ensure_user_tokens on a stored row with deltaDays >= 0 returns and
\* stores min(MaxBalance, balance + deltaDays * DailyRefill), and when
\* deltaDays > 0 it stores the current boundary as the last refill.
C8_Refill ==
    (/\ last.op = "ensure"
     /\ last.had_row
     /\ DeltaDays(last.row_before, last.now) >= 0)
    => LET d == DeltaDays(last.row_before, last.now)
           expected == Min(MAX_TOKENS, last.row_before.tokens + d * DAILY_REFILL)
       IN  /\ last.returned = expected
           /\ StoredTokens = expected
           /\ (d > 0 => user_tokens[last.user].last_refill_at
                           = AsUtc(MostRecentRefillBoundary(last.now)))
           /\ (d = 0 => user_tokens[last.user] = last.row_before)

\* C8 witness: an absence of several days caught up by one call.
C8_Witness ==
    /\ last.op = "ensure"
    /\ last.had_row
    /\ DeltaDays(last.row_before, last.now) >= 2
    /\ last.row_before.tokens < MAX_TOKENS
    /\ StoredTokens = MAX_TOKENS

\* C9: an ensure_user_tokens that follows another one of the same user,
\* with no boundary and no write of the row in between, returns the same
\* balance and writes nothing.
C9_EnsureIdempotent ==
    (/\ last.op = "ensure"
     /\ last.prior
     /\ last.prior_boundary = last.boundary)
    => /\ last.returned = last.prior_returned
       /\ ~last.wrote
       /\ user_tokens[last.user] = last.row_before

\* C9 witness: the second call came later, inside the window in which the
\* first call had refilled.
C9_Witness ==
    /\ last.op = "ensure"
    /\ last.prior
    /\ last.prior_boundary = last.boundary
    /\ last.now > last.prior_now
    /\ last.row_before.last_refill_at = AsUtc(last.boundary)

\* C10: the current boundary of every instant is at REFILL_HOUR:00, is at
\* or before the instant and less than a day before it: today's refill
\* hour from that hour on, yesterday's before it.
C10_Boundary ==
    last.op = "ensure" =>
        LET today == DateOf(last.now) * DayMinutes + REFILL_HOUR_JST * HourMinutes
        IN  /\ last.boundary % DayMinutes = REFILL_HOUR_JST * HourMinutes
            /\ last.boundary <= last.now
            /\ last.now < last.boundary + DayMinutes
            /\ (last.now >= today => last.boundary = today)
            /\ (last.now < today => last.boundary = today - DayMinutes)

\* C10 witness: 03:59 of the second day maps to 04:00 of the day before.
C10_Witness ==
    /\ last.op = "ensure"
    /\ last.now = DayMinutes + REFILL_HOUR_JST * HourMinutes - 1
    /\ last.boundary = REFILL_HOUR_JST * HourMinutes

\* C11: a step of add_category whose ranking fetch failed (None returned,
\* or a payload with no result field) answers 502 and changes no table:
\* no recipe row, no ownership row, no quota row created or rewritten.
C11_UpstreamNoMutation ==
    [][(/\ last'.op \in {"add_category", "add_category_abort"}
        /\ (last'.data.none \/ ~last'.data.has_result))
       => (/\ last'.status = 502
           /\ UNCHANGED <<user_tokens, recipes, user_recipes>>)]_vars

\* C11 witness: the ranking fetch failed for a user who has no quota row
\* yet, and there is still none.
C11_Witness ==
    /\ last.op = "add_category_abort"
    /\ last.status = 502
    /\ last.user \notin DOMAIN user_tokens

\* the string is non-empty and made of the characters 0-9 only
AsciiDigits(s) == Len(s) > 0 /\ \A i \in 1..Len(s) : s[i] \in Digits

\* C12 (as claimed): add_recipe with a recipeId that is empty or has a
\* character other than 0-9 answers 400 without a fetch and without a new
\* recipe or ownership row.
C12_NonDecimalRejected ==
    (last.op = "add_recipe" /\ ~AsciiDigits(last.recipe_id)) =>
        /\ last.status = 400
        /\ last.fetches = 0
        /\ last.new_owned = {}
        /\ last.new_recipes = {}

\* C13: add_recipe with a valid recipeId the user does not own, when
\* ensure_user_tokens returned 0, answers 403 without a fetch, writes no
\* recipe row and no ownership row, and the stored balance is still 0.
C13_ExhaustedNoFetch ==
    (/\ last.op = "add_recipe"
     /\ AsciiDigits(last.recipe_id)
     /\ ~last.owned_at_start
     /\ last.tokens = 0)
    => /\ last.status = 403
       /\ last.fetches = 0
       /\ last.new_owned = {}
       /\ last.new_recipes = {}
       /\ last.tokens_stored = 0
       /\ StoredTokens = 0

\* C13 witness: a request for an unowned recipe was refused at balance 0.
C13_Witness ==
    /\ last.op = "add_recipe"
    /\ last.status = 403
    /\ AsciiDigits(last.recipe_id)
    /\ ~last.owned_at_start
    /\ last.tokens = 0
    /\ last.user \in DOMAIN user_tokens
    /\ StoredTokens = 0
    /\ OwnedIds(user_recipes, last.user) # {}

C15_NotFoundFree ==
    (last.op = "add_recipe" /\ last.status = 404) =>
        /\ last.fetches = 1
        /\ last.new_owned = {}
        /\ last.new_recipes = {}
        /\ StoredTokens = last.tokens_stored
        /\ (last.tokens_stored = last.tokens => StoredTokens = last.tokens)

\* C15 witness: a not-found answer for a well-formed id, the balance being
\* what ensure_user_tokens returned.
C15_Witness ==
    /\ last.op = "add_recipe"
    /\ last.status = 404
    /\ AsciiDigits(last.recipe_id)
    /\ last.fetches = 1
    /\ last.tokens > 0
    /\ StoredTokens = last.tokens

\* the attempt got the status 503
Is503(o) == ~o.raised /\ o.status = 503

\* C16: a fetch whose every attempt got status 503 made exactly
\* MAX_RETRIES attempts and returned None; a fetch in progress is at an
\* attempt of 1..MAX_RETRIES.  Holds for all three fetch functions.
C16_Always503 ==
    /\ \A r \in Reqs :
          req[r].pc = "fetching" =>
              /\ req[r].attempt \in 1..MAX_RETRIES
              /\ Len(req[r].outcomes) = req[r].attempt - 1
    /\ (/\ last.op = "fetch"
        /\ last.outcomes # <<>>
        /\ \A i \in 1..Len(last.outcomes) : Is503(last.outcomes[i]))
       => /\ Len(last.outcomes) = MAX_RETRIES
          /\ last.result = NoPayload

\* C16 witness: three attempts, all 503, then None (here the ranking fetch;
\* the formula covers the kinds alike).
C16_Witness ==
    /\ last.op = "fetch"
    /\ last.kind = "category_ranking"
    /\ Len(last.outcomes) = MAX_RETRIES
    /\ \A i \in 1..Len(last.outcomes) : Is503(last.outcomes[i])
    /\ last.result = NoPayload

\* the fetches that decode a JSON payload
JsonKinds == {"category_list", "category_ranking"}
\* the attempt got a 2xx response with a parseable payload that has no
\* error field
Succeeds(o) == ~o.raised /\ o.status \in 200..299 /\ o.body = "payload"

\* C17 (as claimed): in the ranking and category-list fetches an attempt
\* that is no success (transport failure, transient status, other non-2xx
\* status, unparseable body, error field) is followed by another attempt
\* iff fewer than MAX_RETRIES were made; the first success ends the call
\* with its payload; without a success the call returns None.
C17_RetryPolicy ==
    /\ \A r \in Reqs :
          (req[r].pc = "fetching" /\ req[r].kind \in JsonKinds) =>
              /\ Len(req[r].outcomes) < MAX_RETRIES
              /\ \A i \in 1..Len(req[r].outcomes) : ~Succeeds(req[r].outcomes[i])
    /\ (last.op = "fetch" /\ last.kind \in JsonKinds) =>
          LET n == Len(last.outcomes)
          IN  /\ n \in 1..MAX_RETRIES
              /\ \A i \in 1..(n - 1) : ~Succeeds(last.outcomes[i])
              /\ IF Succeeds(last.outcomes[n])
                 THEN last.result = PayloadOf(n)
                 ELSE n = MAX_RETRIES /\ last.result = NoPayload

\* the position of the item at which the batch failed
FailedAt(items) == CHOOSE i \in 1..Len(items) :
                      items[i] = BadItem /\ \A j \in 1..(i - 1) : items[j] # BadItem

\* C18 (as claimed): when storing an item fails after at least one item of
\* the batch was added, the items added before it keep their recipe and
\* ownership rows and the stored balance is the balance read less the
\* number added.
C18_PartialProgressKept ==
    (last.op = "add_category_error" /\ last.added >= 1) =>
        /\ \A i \in 1..(FailedAt(last.items) - 1) :
              last.items[i] # NoId =>
                  /\ StrOf(last.items[i]) \in OwnedIds(user_recipes, last.user)
                  /\ StrOf(last.items[i]) \in DOMAIN recipes
        /\ last.user \in DOMAIN user_tokens
        /\ StoredTokens = last.tokens - last.added

\* the quota row of a user (none, or one) and the users a step is seen to
\* act for: the user of the response or ensure record it leaves, and the
\* user of a request slot it moves
QuotaOf(tbl, u) == {tbl[v] : v \in DOMAIN tbl \cap {u}}
StepUsers ==
    (IF last' # last /\ last'.op # "none" THEN {last'.user} ELSE {})
    \cup {req'[r].user : r \in {q \in Reqs : req'[q] # req[q] /\ req'[q].pc # "idle"}}
    \cup {req[r].user : r \in {q \in Reqs : req'[q] # req[q] /\ req[q].pc # "idle"}}

\* C19: every step of a call acts for one user a, and leaves the quota row
\* (balance and last refill) and the owned recipe ids of every other user
\* unchanged, whatever calls of the other users it is interleaved with.
C19_ActorsDisjoint ==
    [][\E a \in ActorUsers :
          /\ StepUsers \subseteq {a}
          /\ \A b \in ActorUsers \ {a} :
                /\ QuotaOf(user_tokens', b) = QuotaOf(user_tokens, b)
                /\ OwnedIds(user_recipes', b) = OwnedIds(user_recipes, b)]_vars

\* C19 witness: user 1 completed an ingestion that wrote its balance while
\* user 2 has a quota row with another balance and owns a recipe.
C19_Witness ==
    /\ IsIngestion
    /\ last.user = 1
    /\ last.status = 302
    /\ {1, 2} \subseteq DOMAIN user_tokens
    /\ user_tokens[1].tokens # user_tokens[2].tokens
    /\ OwnedIds(user_recipes, 2) # {}
    /\ last.new_owned # {}

\* C20: ensure_user_tokens on a row whose last_refill_at is malformed, or
\* is later than the current boundary, returns the stored balance, writes
\* nothing and leaves the row as it was.
C20_SkewNoRefill ==
    (/\ last.op = "ensure"
     /\ last.had_row
     /\ \/ ~IsIsoFormat(last.row_before.last_refill_at)
        \/ AsJst(last.row_before.last_refill_at) > last.boundary)
    => /\ last.returned = last.row_before.tokens
       /\ ~last.wrote
       /\ user_tokens[last.user] = last.row_before

\* C20 witness: a row below the cap with malformed text was read, a day
\* after the start, and is still as it was.
C20_Witness ==
    /\ last.op = "ensure"
    /\ last.had_row
    /\ ~IsIsoFormat(last.row_before.last_refill_at)
    /\ last.row_before.tokens < MAX_TOKENS
    /\ last.now >= StartNow + DayMinutes
    /\ last.returned = last.row_before.tokens
    /\ user_tokens[last.user] = last.row_before

\* C21: no step removes a quota row, and a step that creates one is the
\* first ensure_user_tokens of that user: the row gets the current
\* boundary, the call returns MAX_TOKENS, and the balance stored is
\* MAX_TOKENS (less what an add_category charged in the same transaction).
C21_LazyCreation ==
    [][/\ DOMAIN user_tokens \subseteq DOMAIN user_tokens'
       /\ \A u \in DOMAIN user_tokens' \ DOMAIN user_tokens :
             /\ user_tokens'[u].last_refill_at
                    = AsUtc(MostRecentRefillBoundary(now))
             /\ IF last'.op = "ensure"
                THEN /\ last'.user = u
                     /\ last'.returned = MAX_TOKENS
                     /\ user_tokens'[u].tokens = MAX_TOKENS
                ELSE IF last'.op = "add_category"
                THEN /\ last'.user = u
                     /\ last'.tokens = MAX_TOKENS
                     /\ user_tokens'[u].tokens = MAX_TOKENS - last'.added
                ELSE IF last'.op = "add_recipe"
                THEN /\ last'.user = u
                     /\ last'.tokens = MAX_TOKENS
                     /\ user_tokens'[u].tokens = MAX_TOKENS
                ELSE /\ \E r \in Reqs :
                          /\ req'[r].pc # "idle"
                          /\ req'[r].user = u
                          /\ req'[r].tokens = MAX_TOKENS
                     /\ user_tokens'[u].tokens = MAX_TOKENS]_vars

\* C21 witness: the page that shows the balance created the row of a user
\* who had none.
C21_Witness ==
    /\ last.op = "ensure"
    /\ ~last.had_row
    /\ last.returned = MAX_TOKENS
    /\ last.user \in DOMAIN user_tokens
    /\ user_tokens[last.user] =
          [tokens |-> MAX_TOKENS, last_refill_at |-> AsUtc(last.boundary)]

\* the instant is a refill boundary: REFILL_HOUR_JST:00 of some day
IsBoundary(t_jst) == t_jst % DayMinutes = RefillMinute

\* C22: with the clock moving forward only, every stored last_refill_at
\* is a refill boundary and is not later than the current boundary; the
\* wall-clock time of the call is stored only when it is a boundary itself.
C22_StoredBoundary ==
    \A u \in DOMAIN user_tokens :
        LET stored == AsJst(user_tokens[u].last_refill_at)
        IN  /\ IsBoundary(stored)
            /\ stored <= MostRecentRefillBoundary(now)
            /\ (stored = now => IsBoundary(now))

\* C22 witness: a refill at a time that is no boundary stored the boundary
\* before it.
C22_Witness ==
    /\ last.op = "ensure"
    /\ last.had_row
    /\ last.wrote
    /\ ~IsBoundary(last.now)
    /\ last.now = now
    /\ AsJst(user_tokens[last.user].last_refill_at) = last.boundary
    /\ last.boundary < last.now

\* C26: a fetch call that made k attempts slept at most k - 1 times (a call
\* that made none did not sleep): no sleep follows the last attempt.
C26_SleepsBetweenAttempts ==
    last.op = "fetch" =>
        IF Len(last.outcomes) = 0
        THEN Len(last.sleeps) = 0
        ELSE Len(last.sleeps) <= Len(last.outcomes) - 1

\* the response has a 2xx status and its page holds no Recipe block
IsMissingPage(o) ==
    ~o.raised /\ o.status >= 200 /\ o.status < 300 /\ o.body = "no_recipe"

\* the attempt met a transient status or a transport failure
IsTransientFailure(o) == o.raised \/ o.status \in TransientStatus

\* C28: in fetch_recipe_by_id a 2xx page without a Recipe block is the last
\* request of its call and the call returns None without sleeping after it,
\* so a call whose first response is such a page makes exactly one request;
\* a call that ends on a transient status or a transport failure has made
\* MAX_RETRIES requests, and a call still in flight has met no such page.
C28_MissingPageNotRetried ==
    /\ \A r \in Reqs :
          req[r].pc = "fetching" /\ req[r].kind = "recipe_by_id" =>
              \A i \in 1..Len(req[r].outcomes) :
                  ~IsMissingPage(req[r].outcomes[i])
    /\ last.op = "fetch" /\ last.kind = "recipe_by_id" =>
          LET n == Len(last.outcomes)
          IN  /\ \A i \in 1..n :
                    IsMissingPage(last.outcomes[i]) =>
                        /\ i = n
                        /\ last.result = NoPayload
                        /\ Len(last.sleeps) = n - 1
              /\ (n > 0 /\ IsMissingPage(last.outcomes[1])) => n = 1
              /\ (n > 0 /\ IsTransientFailure(last.outcomes[n])) =>
                    n = MAX_RETRIES /\ last.result = NoPayload

\* C28 witness: one call met a transient status, was retried, and ended on
\* the page without a Recipe block that came next.
C28_Witness ==
    /\ last.op = "fetch"
    /\ last.kind = "recipe_by_id"
    /\ Len(last.outcomes) = 2
    /\ IsTransientFailure(last.outcomes[1])
    /\ IsMissingPage(last.outcomes[2])
    /\ last.result = NoPayload

\* C27: no step removes an ownership row, and after every step each
\* ownership row names a recipe row that exists under that id, whichever
\* user the step served.
C27_OwnershipKept ==
    [][/\ user_recipes \subseteq user_recipes'
       /\ \A row \in user_recipes' : row[2] \in DOMAIN recipes']_vars

\* C27 witness: the second user's add_category overwrote a recipe row that
\* the first user had stored with add_recipe, and both own it.
C27_Witness ==
    /\ last.op = "add_category"
    /\ last.user = 2
    /\ last.new_owned = {<<"1">>}
    /\ last.new_recipes = {}
    /\ <<1, <<"1">>>> \in user_recipes
    /\ <<2, <<"1">>>> \in user_recipes
    /\ <<"1">> \in DOMAIN recipes
    /\ recipes[<<"1">>].source_category_id # "manual"

\* positions of out that hold the first entry of their categoryId
Firsts(out) ==
    {i \in 1..Len(out) :
        \A j \in 1..(i - 1) : out[j].categoryId # out[i].categoryId}

\* C23: the list _flatten_categories returns holds no categoryId twice; it
\* is made of the first entry of each categoryId of out (the large
\* entries, then the medium ones, then the small ones), in the order of
\* out.
C23_DedupFirstWins ==
    last.op = "flatten" =>
        LET out == last.out
            deduped == last.deduped
            firsts == Firsts(out)
        IN  /\ out = Appended(last.large_steps) \o Appended(last.medium_steps)
                          \o Appended(last.small_steps)
            /\ \A i, j \in 1..Len(deduped) :
                  i # j => deduped[i].categoryId # deduped[j].categoryId
            /\ Len(deduped) = Cardinality(firsts)
            /\ \A i \in firsts :
                  deduped[Cardinality({x \in firsts : x <= i})] = out[i]

\* C23 witness: a large entry and a medium entry of another name came to
\* one categoryId, the large one was kept, and a small entry whose own id
\* is the id of a medium category was kept too.
C23_Witness ==
    /\ last.op = "flatten"
    /\ \E i \in 1..Len(Appended(last.large_steps)) :
       \E j \in (Len(Appended(last.large_steps)) + 1)..Len(last.out) :
          /\ last.out[i].categoryId = last.out[j].categoryId
          /\ last.out[i].name # last.out[j].name
          /\ \E k \in 1..Len(last.deduped) : last.deduped[k] = last.out[i]
          /\ \A k \in 1..Len(last.deduped) : last.deduped[k] # last.out[j]
    /\ \E i \in 1..Len(last.cat_json.small), k \in 1..Len(last.cat_json.medium) :
          /\ last.small_steps[i] # Skipped
          /\ last.cat_json.small[i].categoryId
                = last.cat_json.medium[k].categoryId
          /\ last.cat_json.small[i].parentCategoryId
                # last.cat_json.medium[k].categoryId
          /\ \E n \in 1..Len(last.deduped) : last.deduped[n] = last.small_steps[i]

\* the entry has an id, a parent and a name, so its loop does not pass it
\* over at the first test
IsComplete(c) ==
    ~IsNone(c.categoryId) /\ ~IsNone(c.parentCategoryId) /\ c.categoryName # <<>>

\* the entries of a list whose id reads as the key
WithId(entries, v) ==
    {k \in 1..Len(entries) :
        ~IsNone(entries[k].categoryId) /\ Str(entries[k].categoryId) = Str(v)}

\* C25: a small entry that is emitted has the id large-medium-small, where
\* medium is its own parentCategoryId and large is the parentCategoryId of
\* a medium entry of the input with that id; a small entry whose parent is
\* the id of no medium entry, or only of medium entries without a parent,
\* is passed over; a medium entry with id, parent and name whose parent is
\* the id of no large entry is emitted with the id large-medium and its own
\* name as path.
C25_CompositeIds ==
    last.op = "flatten" =>
        LET t == last.cat_json
        IN  /\ \A i \in 1..Len(t.small) :
                  LET c == t.small[i]
                      e == last.small_steps[i]
                      meds == WithId(t.medium, c.parentCategoryId)
                  IN  /\ e # Skipped =>
                            /\ IsComplete(c)
                            /\ \E k \in meds :
                                  /\ ~IsNone(t.medium[k].parentCategoryId)
                                  /\ e.categoryId =
                                        Str(t.medium[k].parentCategoryId)
                                          \o <<"-">> \o Str(c.parentCategoryId)
                                          \o <<"-">> \o Str(c.categoryId)
                            /\ \E n \in 1..Len(last.deduped) :
                                  last.deduped[n].categoryId = e.categoryId
                      /\ meds = {} => e = Skipped
                      /\ (\A k \in meds : IsNone(t.medium[k].parentCategoryId))
                            => e = Skipped
            /\ \A i \in 1..Len(t.medium) :
                  LET c == t.medium[i]
                  IN  (IsComplete(c) /\ WithId(t.large, c.parentCategoryId) = {})
                          => last.medium_steps[i] =
                                OutEntry(Str(c.parentCategoryId) \o <<"-">>
                                             \o Str(c.categoryId),
                                         c.categoryName, c.categoryName)

\* C25 witness: of one list, a small entry was emitted under its composite
\* id, a small entry with id, parent and name was passed over because no
\* medium entry has its parent as id, and a medium entry whose parent is no
\* large entry was emitted.
C25_Witness ==
    /\ last.op = "flatten"
    /\ \E i \in 1..Len(last.cat_json.small) :
          /\ last.small_steps[i] # Skipped
          /\ last.small_steps[i].categoryId = <<"1", "-", "2", "-", "1">>
    /\ \E i \in 1..Len(last.cat_json.small) :
          /\ IsComplete(last.cat_json.small[i])
          /\ WithId(last.cat_json.medium,
                    last.cat_json.small[i].parentCategoryId) = {}
          /\ last.small_steps[i] = Skipped
    /\ \E i \in 1..Len(last.cat_json.medium) :
          /\ IsComplete(last.cat_json.medium[i])
          /\ WithId(last.cat_json.large,
                    last.cat_json.medium[i].parentCategoryId) = {}
          /\ last.medium_steps[i] # Skipped
          /\ last.medium_steps[i].path = last.cat_json.medium[i].categoryName

\* the score the rule gives an entry for the whole query `whole`: 5 when
\* its lower-cased form is in the text, and 2 for each token in the text
RuleScore(whole, tokens, c) ==
    (IF Contains(TextOf(c), Lower(whole)) THEN 5 ELSE 0)
        + 2 * Cardinality({i \in 1..Len(tokens) : Contains(TextOf(c), tokens[i])})

\* what the claim says of the list returned, for the whole query `whole`
SuggestRule(whole) ==
    LET ret == last.returned
        cats == last.fetched.cats
        tokens == Tokens(last.query)
    IN  /\ Len(ret) <= last.limit
        /\ \A k \in 1..Len(ret) :
              /\ ret[k].score > 0
              /\ \E i \in 1..Len(cats) :
                    /\ ret[k] = ScoredEntry(cats[i], RuleScore(whole, tokens, cats[i]))
                    /\ \/ Contains(TextOf(cats[i]), Lower(whole))
                       \/ \E t \in 1..Len(tokens) :
                             Contains(TextOf(cats[i]), tokens[t])
        /\ \A k \in 1..(Len(ret) - 1) :
              \/ ret[k].score > ret[k + 1].score
              \/ /\ ret[k].score = ret[k + 1].score
                 /\ Len(ret[k].path) <= Len(ret[k + 1].path)

=============================================================================
